---------------------------- MODULE Spec2Model ----------------------------
(* HexCrypt: Intel HEX reader/writer with an ARC4 pass over the payloads.   *)
(*                                                                          *)
(* Two revisions of the IntelHex class are modelled side by side:           *)
(*   V  the ordered-record one (src/ihex.h, std::vector<HexRecord>)         *)
(*   M  the address-keyed one (src/unnamed/part_001, std::map)              *)
(* Every operation acts on both, so each variable comes in a V and an M     *)
(* flavour.  Characters are their ASCII codes, files are flat sequences of  *)
(* characters, bytes are 0..255.                                            *)
EXTENDS Integers, Sequences, FiniteSets, TLC

VARIABLES
    input,      \* [Objs -> file]  the file each object's Read is pointed at
    keyfile,    \* the bytes of the key file, passed to every Cipher
    fDataV,     \* [Objs -> Seq(HexRecord)]            IntelHex::fData (ihex.h)
    fDataM,     \* [Objs -> Seq([first, second])]      IntelHex::fData (map, sorted by key)
    readV,      \* [Objs -> outcome of the last Read]  (ihex.h)
    readM,      \* [Objs -> outcome of the last Read]  (map revision)
    outV,       \* the file written by Write (ihex.h), NoFile before the first Write
    outM,       \* the file written by Write (map revision)
    equal,      \* [V, M |-> result of the last hex == hex2]
    last,       \* history: the last operation performed
    orig,       \* history: [Objs -> the image first read, the Ciphers since, the
                \*           Cipher count at which it last went through the written file]
    outOrig,    \* history: where the written file comes from
    sKey,       \* keystream harness: the key the state was set up with
    sState,     \* keystream harness: uint8_t state[256]
    sOut,       \* keystream harness: all bytes emitted since the key setup
    sCalls      \* keystream harness: the lengths requested, in order

vars == <<input, keyfile, fDataV, fDataM, readV, readM, outV, outM, equal, last, orig,
          outOrig, sKey, sState, sOut, sCalls>>
hexVars == <<input, keyfile, fDataV, fDataM, readV, readM, outV, outM, equal, last, orig, outOrig>>
streamVars == <<sKey, sState, sOut, sCalls>>

--------------------------------------------------------------------------
(* Bounds of the model                                                      *)

MaxCiphers == 2     \* Cipher calls on one image since it was read from the input
MaxBody == 2        \* records before the last line of a generated input file
MaxCalls == 3       \* arcfour_generate_stream calls after one key setup
MaxChunk == 3       \* bytes requested by one arcfour_generate_stream call

--------------------------------------------------------------------------
(* Characters                                                               *)

LF == 10
CR == 13
Colon == 58
LineSize == 1026
Byte == 0..255

--------------------------------------------------------------------------
(* arcfour.c                                                                *)

\* One iteration of the key schedule loop; s = [state, i, j].
key_setup_step(s, key) ==
    LET j2 == (s.j + s.state[s.i] + key[(s.i % Len(key)) + 1]) % 256
    IN  [state |-> [s.state EXCEPT ![s.i] = s.state[j2], ![j2] = s.state[s.i]],
         i |-> s.i + 1, j |-> j2]

\* n consecutive iterations of the key schedule loop (halved to keep the
\* evaluation shallow; the test on h.i forces the first half first).
RECURSIVE key_setup_loop(_, _, _)
key_setup_loop(s, key, n) ==
    IF n = 0 THEN s
    ELSE IF n = 1 THEN key_setup_step(s, key)
    ELSE LET h == key_setup_loop(s, key, n \div 2)
         IN  IF h.i >= 0 THEN key_setup_loop(h, key, n - (n \div 2)) ELSE h

arcfour_key_setup(key) ==
    key_setup_loop([state |-> [n \in 0..255 |-> n], i |-> 0, j |-> 0], key, 256).state

\* One iteration of the generator loop; s = [state, out, i, j].
generate_step(s) ==
    LET i2 == (s.i + 1) % 256
        j2 == (s.j + s.state[i2]) % 256
        st == [s.state EXCEPT ![i2] = s.state[j2], ![j2] = s.state[i2]]
    IN  [state |-> st, out |-> Append(s.out, st[(st[i2] + st[j2]) % 256]),
         i |-> i2, j |-> j2]

RECURSIVE generate_loop(_, _)
generate_loop(s, n) ==
    IF n = 0 THEN s
    ELSE IF n = 1 THEN generate_step(s)
    ELSE LET h == generate_loop(s, n \div 2)
         IN  IF h.i >= 0 THEN generate_loop(h, n - (n \div 2)) ELSE h

\* The indices i and j are locals of the function, set to 0 by the for
\* statement of every call; only state[] survives from call to call.
arcfour_generate_stream(state, len) ==
    LET r == generate_loop([state |-> state, out |-> <<>>, i |-> 0, j |-> 0], len)
    IN  [state |-> r.state, out |-> r.out]

--------------------------------------------------------------------------
(* Byte arithmetic                                                          *)

RECURSIVE XorBits(_, _, _)
XorBits(a, b, n) ==
    IF n = 0 THEN 0
    ELSE ((a + b) % 2) + 2 * XorBits(a \div 2, b \div 2, n - 1)

\* A faulty variant: the stream is added to the payload instead of XORed.
Xor_Added(a, b) == (a + b) % 256

\* uint8_t a ^ uint8_t b
Xor(a, b) == XorBits(a, b, 8)

RECURSIVE SumBytes(_)
SumBytes(s) == IF s = <<>> THEN 0 ELSE s[1] + SumBytes(Tail(s))

\* A faulty variant: the checksum is the plain sum, not its two's complement.
UpdateChecksum_NotNegated(r) ==
    [r EXCEPT !.checksum =
        (r.size + (r.address \div 256) + (r.address % 256) + r.type + SumBytes(r.data)) % 256]

\* HexRecord::UpdateChecksum
UpdateChecksum(r) ==
    [r EXCEPT !.checksum =
        (256 - ((r.size + (r.address \div 256) + (r.address % 256) + r.type
                 + SumBytes(r.data)) % 256)) % 256]

\* HexRecord::HexRecord(uint8_t* data); buffer[k] of the code is buffer[k + 1] here.
HexRecord(buffer) ==
    LET size == buffer[1]
    IN  [size |-> size,
         address |-> buffer[2] * 256 + buffer[3],
         type |-> buffer[4],
         checksum |-> buffer[size + 5],
         data |-> SubSeq(buffer, 5, size + 4)]

--------------------------------------------------------------------------
(* Outcome of IntelHex::Read: its return value and what it printed          *)

NotCalled == [ok |-> FALSE, kind |-> "not called", line |-> 0, column |-> 0, message |-> ""]
ReadOk(l) == [ok |-> TRUE, kind |-> "none", line |-> l, column |-> 0, message |-> ""]
ParseError(l, col, msg) ==
    [ok |-> FALSE, kind |-> "ParseError", line |-> l, column |-> col, message |-> msg]
IosFailure(l) ==
    [ok |-> FALSE, kind |-> "ios_base::failure", line |-> l, column |-> 0,
     message |-> "Can't read input file"]

\* A file that cannot be opened.
NoFile == <<-1>>

--------------------------------------------------------------------------
(* std::istream::getline(line, sizeof(line)) on in = [data, pos, good]      *)

getline(in) ==
    LET n == Len(in.data)
        nls == {q \in (in.pos + 1)..n : in.data[q] = LF}
        q == CHOOSE x \in nls : \A y \in nls : x <= y
    IN  IF ~in.good \/ in.pos >= n
        THEN [fail |-> TRUE, line |-> <<>>, gcount |-> 0, in |-> [in EXCEPT !.good = FALSE]]
        ELSE IF nls = {}
        THEN \* end of file before a newline: eofbit, the characters are kept
             [fail |-> n - in.pos > LineSize - 1,
              line |-> SubSeq(in.data, in.pos + 1, n),
              gcount |-> n - in.pos,
              in |-> [in EXCEPT !.pos = n, !.good = FALSE]]
        ELSE \* the newline is extracted and counted, not stored
             [fail |-> q - in.pos - 1 > LineSize - 1,
              line |-> SubSeq(in.data, in.pos + 1, q - 1),
              gcount |-> q - in.pos,
              in |-> [in EXCEPT !.pos = q]]

--------------------------------------------------------------------------
(* IntelHex::Parse, the part common to both revisions                       *)

\* The value of a hexadecimal character, -1 for any other character.
nibble_of(c) ==
    IF c >= 48 /\ c <= 57 THEN c - 48
    ELSE IF c >= 97 /\ c <= 102 THEN c - 87
    ELSE IF c >= 65 /\ c <= 70 THEN c - 55
    ELSE -1

\* The loop "Convert line to bytes"; line[i] of the code is line[i + 1] here.
\* d = [buffer, byte, sum, column]; column >= 0 is the place of a bad character.
RECURSIVE decode_loop(_, _, _, _)
decode_loop(line, length, i, d) ==
    IF i >= length THEN d
    ELSE LET nibble == nibble_of(line[i + 1])
         IN  IF nibble = -1
             THEN IF line[i + 1] = CR /\ i = length - 1
                  THEN d
                  ELSE [d EXCEPT !.column = i]
             ELSE IF i % 2 = 1
             THEN decode_loop(line, length, i + 1,
                     [d EXCEPT !.buffer = Append(SubSeq(d.buffer, 1, d.byte), nibble)])
             ELSE LET b == ((d.buffer[d.byte + 1] * 16) % 256) + nibble
                  IN  decode_loop(line, length, i + 1,
                         [d EXCEPT !.buffer[d.byte + 1] = b,
                                   !.sum = (d.sum + b) % 256,
                                   !.byte = d.byte + 1])

decode(line, length) ==
    decode_loop(line, length, 1, [buffer |-> <<>>, byte |-> 0, sum |-> 0, column |-> -1])

\* A faulty variant: the declared length is checked before the checksum.
check_record_LengthFirst(d, l, length) ==
    IF d.buffer[1] + 5 # d.byte THEN ParseError(l, 2, "mismatched length")
    ELSE IF d.sum # 0 THEN ParseError(l, length - 2, "checksum error")
    ELSE ReadOk(l)

\* The checks on the decoded bytes of a line.
check_record(d, l, length) ==
    IF d.sum # 0 THEN ParseError(l, length - 2, "checksum error")
    ELSE IF d.buffer[1] + 5 # d.byte THEN ParseError(l, 2, "mismatched length")
    ELSE ReadOk(l)

\* One line, from getline to the checks: the decoded bytes or the error.
parse_line(g, l) ==
    LET length == g.gcount - 1
    IN  IF g.fail THEN [ret |-> IosFailure(l), buffer |-> <<>>]
        ELSE IF length < 10 \/ g.line[1] # Colon
        THEN [ret |-> ParseError(l, 0, "not starting with ':' or too short"), buffer |-> <<>>]
        ELSE LET d == decode(g.line, length)
             IN  IF d.column >= 0
                 THEN [ret |-> ParseError(l, d.column, "not an hexadecimal character"),
                       buffer |-> <<>>]
                 ELSE [ret |-> check_record(d, l, length), buffer |-> d.buffer]

--------------------------------------------------------------------------
(* IntelHex::Parse, ordered-record revision (ihex.h)                        *)

RECURSIVE parse_loop_V(_, _, _)
parse_loop_V(in, l, fData) ==
    LET g == getline(in)
        p == parse_line(g, l)
    IN  IF ~p.ret.ok THEN [fData |-> fData, ret |-> p.ret]
        ELSE LET r == HexRecord(p.buffer)
             IN  IF r.type = 1
                 THEN [fData |-> Append(fData, r), ret |-> ReadOk(l)]
                 ELSE parse_loop_V(g.in, l + 1, Append(fData, r))

ParseV(data) == parse_loop_V([data |-> data, pos |-> 0, good |-> TRUE], 1, <<>>)

--------------------------------------------------------------------------
(* IntelHex::Parse, address-keyed revision (part_001)                       *)

\* A uint32_t is the pair <<bits 31..16, bits 15..0>> (TLC's integers have
\* 32 bits with a sign); uint32_lt is its order, the order of the map.
uint32_lt(a, b) == a[1] < b[1] \/ (a[1] = b[1] /\ a[2] < b[2])

RECURSIVE OrBits(_, _, _)
OrBits(a, b, n) ==
    IF n = 0 THEN 0
    ELSE (IF a % 2 = 1 \/ b % 2 = 1 THEN 1 ELSE 0) + 2 * OrBits(a \div 2, b \div 2, n - 1)

\* extended | offset, offset a uint16_t
uint32_or(extended, offset) == <<extended[1], OrBits(extended[2], offset, 16)>>

\* std::map::insert: the map is kept sorted by key, an existing key is kept.
map_insert(m, record) ==
    IF \E k \in DOMAIN m : m[k].first = record.first THEN m
    ELSE SelectSeq(m, LAMBDA e : uint32_lt(e.first, record.first)) \o <<record>>
         \o SelectSeq(m, LAMBDA e : uint32_lt(record.first, e.first))

\* A faulty variant: the two address bytes are shifted by 16 and 8 bits.
extended_of_ShiftedLow(buffer) == <<buffer[5], buffer[6] * 256>>

\* extended = (buffer[4] << 24) | (buffer[5] << 16), as a uint32_t
extended_of(buffer) == <<buffer[5] * 256 + buffer[6], 0>>

RECURSIVE parse_loop_M(_, _, _, _)
parse_loop_M(in, l, extended, fData) ==
    LET g == getline(in)
        p == parse_line(g, l)
        count == p.buffer[1]
        offset == p.buffer[2] * 256 + p.buffer[3]
        type == p.buffer[4]
    IN  IF ~p.ret.ok THEN [fData |-> fData, ret |-> p.ret]
        ELSE IF type = 0
        THEN parse_loop_M(g.in, l + 1, extended,
                map_insert(fData, [first |-> uint32_or(extended, offset),
                                   second |-> SubSeq(p.buffer, 5, 4 + count)]))
        ELSE IF type = 1
        THEN IF count # 0
             THEN [fData |-> fData, ret |-> ParseError(l, 9, "end-of-file record has data")]
             ELSE [fData |-> fData, ret |-> ReadOk(l)]
        ELSE IF type = 4
        THEN IF count # 2
             THEN [fData |-> fData,
                   ret |-> ParseError(l, 9, "wrong size for extended address record")]
             ELSE parse_loop_M(g.in, l + 1, extended_of(p.buffer), fData)
        ELSE [fData |-> fData, ret |-> ParseError(l, 8, "unhandled record type")]

ParseM(data) == parse_loop_M([data |-> data, pos |-> 0, good |-> TRUE], 1, <<0, 0>>, <<>>)

--------------------------------------------------------------------------
(* Generation                                                               *)

\* A faulty variant: letters are written in lower case.
hex_char_Lower(n) == IF n < 10 THEN n + 48 ELSE n + 87

\* One nibble as a character: n += '0' or n += 'A' - 10.
hex_char(n) == IF n < 10 THEN n + 48 ELSE n + 55

RECURSIVE hex_text(_)
hex_text(buffer) ==
    IF buffer = <<>> THEN <<>>
    ELSE <<hex_char(buffer[1] \div 16), hex_char(buffer[1] % 16)>> \o hex_text(Tail(buffer))

\* HexRecord::Generate (ihex.h): the stored fields, the stored checksum.
HexRecord_Generate(r) ==
    <<Colon>>
    \o hex_text(<<r.size, (r.address \div 256) % 256, r.address % 256, r.type>>
                \o SubSeq(r.data, 1, r.size) \o <<r.checksum>>)
    \o <<CR, LF>>

RECURSIVE GenerateV(_)
GenerateV(fData) ==
    IF fData = <<>> THEN <<>>
    ELSE HexRecord_Generate(Head(fData)) \o GenerateV(Tail(fData))

\* A faulty variant: the checksum accumulates the bytes instead of subtracting them.
checksum_of_Added(bytes) == SumBytes(bytes) % 256

\* buffer[length + 4] starts at 0 and has every byte written before it subtracted.
checksum_of(bytes) == (256 - (SumBytes(bytes) % 256)) % 256

\* IntelHex::WriteRecord (part_001); address is a uint16_t.
WriteRecord(type, address, data) ==
    LET head == <<Len(data) % 256, address \div 256, address % 256, type>> \o data
    IN  <<Colon>> \o hex_text(head \o <<checksum_of(head)>>) \o <<CR, LF>>

RECURSIVE generate_loop_M(_, _)
generate_loop_M(fData, extended) ==
    IF fData = <<>> THEN WriteRecord(1, 0, <<>>)
    ELSE LET line == Head(fData)
             bank == <<line.first[1], 0>>       \* line.first & 0xffff0000
         IN  (IF bank # extended
              THEN WriteRecord(4, 0, <<line.first[1] \div 256, line.first[1] % 256>>)
              ELSE <<>>)
             \o WriteRecord(0, line.first[2], line.second)
             \o generate_loop_M(Tail(fData), bank)

GenerateM(fData) == generate_loop_M(fData, <<0, 0>>)

--------------------------------------------------------------------------
(* IntelHex::Cipher                                                         *)

Objs == {"hex", "hex2"}

\* "I'm an unsafe key" and its terminating NUL: the 18 bytes test.cpp passes.
TestKey == <<73, 39, 109, 32, 97, 110, 32, 117, 110, 115, 97, 102, 101, 32, 107, 101, 121, 0>>
Keys == {<<1>>, <<75, 101, 121>>, TestKey}

\* The state after the key setup and the 256 discarded stream bytes.
cipher_setup(key) == arcfour_generate_stream(arcfour_key_setup(key), 256).state

\* cipher_setup, tabulated over the keys of the model: it depends on the key
\* alone, and a table is evaluated once.
cipher_setup_of == [key \in Keys |-> cipher_setup(key)]

xor_stream(data, stream) == [i \in 1..Len(data) |-> Xor(data[i], stream[i])]

RECURSIVE cipher_loop_V(_, _)
cipher_loop_V(state, fData) ==
    IF fData = <<>> THEN <<>>
    ELSE LET line == Head(fData)
             g == arcfour_generate_stream(state, Len(line.data))
         IN  <<UpdateChecksum([line EXCEPT !.data = xor_stream(line.data, g.out)])>>
             \o cipher_loop_V(g.state, Tail(fData))

CipherV(fData, key) == cipher_loop_V(cipher_setup_of[key], fData)

RECURSIVE cipher_loop_M(_, _)
cipher_loop_M(state, fData) ==
    IF fData = <<>> THEN <<>>
    ELSE LET line == Head(fData)
             g == arcfour_generate_stream(state, Len(line.second))
         IN  <<[line EXCEPT !.second = xor_stream(line.second, g.out)]>>
             \o cipher_loop_M(g.state, Tail(fData))

CipherM(fData, key) == cipher_loop_M(cipher_setup_of[key], fData)

--------------------------------------------------------------------------
(* operator==                                                               *)

\* HexRecord::operator== (ihex.h)
HexRecord_eq(a, b) ==
    IF a.size # b.size THEN FALSE
    ELSE IF a.address # b.address THEN FALSE
    ELSE IF a.type # b.type THEN FALSE
    ELSE IF a.checksum # b.checksum THEN FALSE
    ELSE TRUE

\* IntelHex::operator== (ihex.h): std::vector's ==, element by element
IntelHex_eq_V(a, b) ==
    /\ Len(a) = Len(b)
    /\ \A k \in 1..Len(a) : HexRecord_eq(a[k], b[k])

\* IntelHex::operator== (part_001): std::map's ==, keys and payloads
IntelHex_eq_M(a, b) ==
    /\ Len(a) = Len(b)
    /\ \A k \in 1..Len(a) : a[k].first = b[k].first /\ a[k].second = b[k].second

--------------------------------------------------------------------------
(* Inputs: keys and files                                                   *)

UpperDigits == <<48, 49, 50, 51, 52, 53, 54, 55, 56, 57, 65, 66, 67, 68, 69, 70>>
LowerDigits == <<48, 49, 50, 51, 52, 53, 54, 55, 56, 57, 97, 98, 99, 100, 101, 102>>

RECURSIVE TextOf(_, _)
TextOf(bytes, digits) ==
    IF bytes = <<>> THEN <<>>
    ELSE <<digits[(bytes[1] \div 16) + 1], digits[(bytes[1] % 16) + 1]>>
         \o TextOf(Tail(bytes), digits)

\* The bytes of a record with a correct checksum.
RecordBytes(address, type, data) ==
    LET head == <<Len(data), address \div 256, address % 256, type>> \o data
    IN  head \o <<(256 - (SumBytes(head) % 256)) % 256>>

\* The same bytes with the checksum off by one.
BadSum(bytes) == [bytes EXCEPT ![Len(bytes)] = (@ + 1) % 256]

Upper(bytes) == <<Colon>> \o TextOf(bytes, UpperDigits)
Lower(bytes) == <<Colon>> \o TextOf(bytes, LowerDigits)

RecD1 == RecordBytes(0, 0, <<1, 2>>)              \* :020000000102FB
RecD2 == RecordBytes(4660, 0, <<85>>)             \* :011234005564
RecD3 == RecordBytes(0, 0, <<2, 1>>)              \* :020000000201FB
RecD4 == RecordBytes(160, 0, <<171, 205, 239>>)   \* :0300A000ABCDEFF6
RecEla == RecordBytes(0, 4, <<171, 205>>)         \* :02000004ABCD82
RecEof == RecordBytes(0, 1, <<>>)                 \* :00000001FF
RecT2 == RecordBytes(0, 2, <<16, 0>>)             \* :020000021000EC

\* Lines of a file are given without their end; a file joins them.
RECURSIVE Join(_, _, _)
Join(lines, eol, terminated) ==
    IF lines = <<>> THEN <<>>
    ELSE Head(lines)
         \o (IF Len(lines) > 1 \/ terminated THEN eol ELSE <<>>)
         \o Join(Tail(lines), eol, terminated)

CrLf == <<CR, LF>>
OnlyLf == <<LF>>

\* Lines that are not well-formed records.
LineLenOnly == Upper(<<3, 0, 0, 0, 1, 2, 250>>)        \* :03000000 0102 FA, sum 0, one byte short
LineLenBadSum == Upper(<<3, 0, 0, 0, 1, 2, 251>>)      \* the same with a wrong checksum
LineEofData == Upper(RecordBytes(0, 1, <<85>>))        \* an end-of-file record with a payload
LineElaShort == Upper(RecordBytes(0, 4, <<171>>))      \* an extended address of one byte
LineNonHex == [Upper(RecD1) EXCEPT ![11] = 71]         \* :0200000001G2FB
LineNoColon == Tail(Upper(RecD1))                      \* 020000000102FB
LineShort == SubSeq(Upper(RecEof), 1, 9)               \* :00000001
LineOdd == Upper(RecEof) \o <<48>>                     \* :00000001FF0
LineC9 == Upper(<<2, 0, 0, 4, 171, 205, 0, 223>>)      \* :02000004ABCD00DF

BodyLines ==
    {Upper(RecD1), Upper(RecD2), Lower(RecD4), Upper(RecEla), Upper(RecT2), Upper(RecEof)}

FinalLines ==
    {Upper(RecEof), Lower(RecEof), Upper(RecD1), Upper(BadSum(RecD1)), Upper(RecT2),
     Upper(BadSum(RecT2)), LineLenOnly, LineLenBadSum, LineEofData, LineElaShort,
     LineNonHex, LineNoColon, LineShort, LineOdd, LineC9, <<>>}

Bodies == UNION {[1..n -> BodyLines] : n \in 0..MaxBody}

FileC9 == Join(<<LineC9, Upper(RecD2), Upper(RecEof)>>, CrLf, TRUE)

\* Files of one or two lines, for the line ends that are not CR LF.
ShortBodies == {b \in Bodies : Len(b) <= 1}

\* The files the codec is run on: some records, then a last line of any kind;
\* lines end in CR LF, and the short files also come with a last line that
\* has no end and with lines that end in LF alone.
CodecFiles ==
    {Join(b \o <<f>>, CrLf, TRUE) : b \in Bodies, f \in FinalLines}
    \cup {Join(b \o <<f>>, CrLf, FALSE) : b \in ShortBodies, f \in FinalLines}
    \cup {Join(b \o <<f>>, OnlyLf, TRUE) : b \in ShortBodies, f \in FinalLines}
    \cup {FileC9, NoFile}

\* The files the cipher is run on.
MainFiles ==
    {Join(<<Upper(RecD1), Upper(RecEof)>>, CrLf, TRUE),
     Join(<<Upper(RecEla), Upper(RecD2), Upper(RecD4), Upper(RecEof)>>, CrLf, TRUE),
     Join(<<Lower(RecD4), Lower(RecEla), Lower(RecD2), Lower(RecEof)>>, OnlyLf, TRUE),
     Join(<<Upper(RecD1), Upper(RecD3), Upper(RecD2), Upper(RecEof)>>, CrLf, TRUE),
     Join(<<Upper(RecT2), Upper(RecD1), Upper(RecEof)>>, CrLf, TRUE),
     Join(<<Upper(RecD4), Upper(BadSum(RecD1)), Upper(RecEof)>>, CrLf, TRUE),
     Join(<<Upper(RecD2), Upper(RecEof)>>, CrLf, FALSE),
     Join(<<Upper(RecEof)>>, CrLf, TRUE)}

\* The files two images are compared on.
CmpFiles ==
    {Join(<<Upper(RecD1), Upper(RecEof)>>, CrLf, TRUE),
     Join(<<Upper(RecD3), Upper(RecEof)>>, CrLf, TRUE),
     Join(<<Upper(RecD2), Upper(RecEof)>>, CrLf, TRUE),
     Join(<<Upper(RecEla), Upper(RecD2), Upper(RecEof)>>, CrLf, TRUE)}

--------------------------------------------------------------------------
(* The state machine                                                        *)

NoProv == [V |-> <<>>, M |-> <<>>, okV |-> FALSE, okM |-> FALSE, ciphers |-> 0, via |-> -1]
Op(name, o) == [op |-> name, o |-> o]

InitHex ==
    /\ fDataV = [o \in Objs |-> <<>>]
    /\ fDataM = [o \in Objs |-> <<>>]
    /\ readV = [o \in Objs |-> NotCalled]
    /\ readM = [o \in Objs |-> NotCalled]
    /\ outV = NoFile
    /\ outM = NoFile
    /\ equal = [V |-> FALSE, M |-> FALSE]
    /\ last = Op("new", "")
    /\ orig = [o \in Objs |-> NoProv]
    /\ outOrig = [prov |-> NoProv, V |-> <<>>, M |-> <<>>]

InitStream ==
    /\ sKey = <<>>
    /\ sState = [n \in 0..255 |-> 0]
    /\ sOut = <<>>
    /\ sCalls = <<>>

\* IntelHex::Read on a file: a file that cannot be opened leaves fData alone.
ReadV(fData, file) ==
    IF file = NoFile THEN [fData |-> fData, ret |-> IosFailure(0)] ELSE ParseV(file)

ReadM(fData, file) ==
    IF file = NoFile THEN [fData |-> fData, ret |-> IosFailure(0)] ELSE ParseM(file)

\* o.Read(<the input file>)
Read(o) ==
    LET v == ReadV(fDataV[o], input[o])
        m == ReadM(fDataM[o], input[o])
    IN  /\ fDataV' = [fDataV EXCEPT ![o] = v.fData]
        /\ fDataM' = [fDataM EXCEPT ![o] = m.fData]
        /\ readV' = [readV EXCEPT ![o] = v.ret]
        /\ readM' = [readM EXCEPT ![o] = m.ret]
        /\ orig' = [orig EXCEPT ![o] = [V |-> v.fData, M |-> m.fData, okV |-> v.ret.ok,
                                        okM |-> m.ret.ok, ciphers |-> 0, via |-> -1]]
        /\ last' = Op("Read", o)
        /\ UNCHANGED <<input, keyfile, outV, outM, equal, outOrig>>
        /\ UNCHANGED streamVars

\* o.Read(<the file Write wrote>)
ReadBack(o) ==
    LET v == ReadV(fDataV[o], outV)
        m == ReadM(fDataM[o], outM)
    IN  /\ fDataV' = [fDataV EXCEPT ![o] = v.fData]
        /\ fDataM' = [fDataM EXCEPT ![o] = m.fData]
        /\ readV' = [readV EXCEPT ![o] = v.ret]
        /\ readM' = [readM EXCEPT ![o] = m.ret]
        /\ orig' = [orig EXCEPT ![o] = [outOrig.prov EXCEPT !.okV = @ /\ v.ret.ok,
                                                            !.okM = @ /\ m.ret.ok,
                                                            !.via = outOrig.prov.ciphers]]
        /\ last' = Op("ReadBack", o)
        /\ UNCHANGED <<input, keyfile, outV, outM, equal, outOrig>>
        /\ UNCHANGED streamVars

\* o.Cipher(keyfile, len)
Cipher(o) ==
    /\ orig[o].ciphers < MaxCiphers
    /\ fDataV' = [fDataV EXCEPT ![o] = CipherV(fDataV[o], keyfile)]
    /\ fDataM' = [fDataM EXCEPT ![o] = CipherM(fDataM[o], keyfile)]
    /\ orig' = [orig EXCEPT ![o].ciphers = @ + 1]
    /\ last' = Op("Cipher", o)
    /\ UNCHANGED <<input, keyfile, readV, readM, outV, outM, equal, outOrig>>
    /\ UNCHANGED streamVars

\* o.Write(<the output file>)
Write(o) ==
    /\ outV' = GenerateV(fDataV[o])
    /\ outM' = GenerateM(fDataM[o])
    /\ outOrig' = [prov |-> orig[o], V |-> fDataV[o], M |-> fDataM[o]]
    /\ last' = Op("Write", o)
    /\ UNCHANGED <<input, keyfile, fDataV, fDataM, readV, readM, equal, orig>>
    /\ UNCHANGED streamVars

\* hex == hex2
Compare ==
    /\ equal' = [V |-> IntelHex_eq_V(fDataV["hex"], fDataV["hex2"]),
                 M |-> IntelHex_eq_M(fDataM["hex"], fDataM["hex2"])]
    /\ last' = Op("Compare", "hex")
    /\ UNCHANGED <<input, keyfile, fDataV, fDataM, readV, readM, outV, outM, orig, outOrig>>
    /\ UNCHANGED streamVars

\* arcfour_key_setup(state, k, len), once
StreamSetup(k) ==
    /\ sKey = <<>>
    /\ sKey' = k
    /\ sState' = arcfour_key_setup(k)
    /\ sOut' = <<>>
    /\ sCalls' = <<>>
    /\ UNCHANGED hexVars

\* arcfour_generate_stream(state, out, n) on the state the last call left
StreamGenerate(n) ==
    /\ sKey # <<>>
    /\ Len(sCalls) < MaxCalls
    /\ LET g == arcfour_generate_stream(sState, n)
       IN  /\ sState' = g.state
           /\ sOut' = sOut \o g.out
    /\ sCalls' = Append(sCalls, n)
    /\ UNCHANGED <<sKey>>
    /\ UNCHANGED hexVars

\* hexcrypt on one file with one key file, and the written file read back.
Init ==
    /\ \E file \in MainFiles : input = [o \in Objs |-> file]
    /\ keyfile \in Keys
    /\ InitHex /\ InitStream
Next ==
    \/ Read("hex")
    \/ Cipher("hex")
    \/ Write("hex")
    \/ ReadBack("hex")
Spec == Init /\ [][Next]_vars

\* The codec alone: one file read and written back.
InitCodec ==
    /\ \E file \in CodecFiles : input = [o \in Objs |-> file]
    /\ keyfile = TestKey
    /\ InitHex /\ InitStream
NextCodec ==
    \/ Read("hex")
    \/ Write("hex")
SpecCodec == InitCodec /\ [][NextCodec]_vars

\* Two images, each read from its own file, ciphered and compared.
InitCompare ==
    /\ input \in [Objs -> CmpFiles]
    /\ keyfile \in Keys
    /\ InitHex /\ InitStream
NextCompare ==
    \/ \E o \in Objs : Read(o)
    \/ \E o \in Objs : Cipher(o)
    \/ Compare
SpecCompare == InitCompare /\ [][NextCompare]_vars

\* The keystream generator alone.
InitStreamOnly ==
    /\ input = [o \in Objs |-> NoFile]
    /\ keyfile = TestKey
    /\ InitHex /\ InitStream
NextStream ==
    \/ \E k \in Keys : StreamSetup(k)
    \/ \E n \in 0..MaxChunk : StreamGenerate(n)
SpecStream == InitStreamOnly /\ [][NextStream]_vars

--------------------------------------------------------------------------
(* The file format, read off the text of a file (not through Parse)         *)

LfAt(file) == {q \in 1..Len(file) : file[q] = LF}
NumLines(file) == IF file = NoFile THEN 0 ELSE Cardinality(LfAt(file))
NthLf(file, n) == CHOOSE q \in LfAt(file) : Cardinality({r \in LfAt(file) : r <= q}) = n

\* The n-th newline-terminated line, without its newline.
LineN(file, n) ==
    SubSeq(file, IF n = 1 THEN 1 ELSE NthLf(file, n - 1) + 1, NthLf(file, n) - 1)

StripCr(line) ==
    IF line # <<>> /\ line[Len(line)] = CR THEN SubSeq(line, 1, Len(line) - 1) ELSE line

DigitsIn(line, digits) ==
    \A k \in 2..Len(StripCr(line)) : \E d \in 1..Len(digits) : digits[d] = line[k]
HexValue(c) ==
    CHOOSE v \in 0..15 : UpperDigits[v + 1] = c \/ LowerDigits[v + 1] = c

\* ':' followed by hexadecimal digits only, up to an optional carriage return.
HexOnly(line) ==
    /\ line # <<>>
    /\ line[1] = Colon
    /\ \A k \in 2..Len(StripCr(line)) :
          \E d \in 1..16 : UpperDigits[d] = line[k] \/ LowerDigits[d] = line[k]

\* The bytes its pairs of digits spell.
BytesOf(line) ==
    [k \in 1..((Len(StripCr(line)) - 1) \div 2) |->
        16 * HexValue(line[2 * k]) + HexValue(line[2 * k + 1])]

\* A record: whole bytes, the declared length, a zero sum.
IsRecord(line) ==
    /\ HexOnly(line)
    /\ (Len(StripCr(line)) - 1) % 2 = 0
    /\ Len(BytesOf(line)) >= 5
    /\ BytesOf(line)[1] + 5 = Len(BytesOf(line))
    /\ SumBytes(BytesOf(line)) % 256 = 0

TypeOf(line) == BytesOf(line)[4]
OffsetOf(line) == BytesOf(line)[2] * 256 + BytesOf(line)[3]
PayloadOf(line) == SubSeq(BytesOf(line), 5, Len(BytesOf(line)) - 1)

\* Every line a record of a supported type ending in CR LF, the last one the
\* only end-of-file record, nothing after it; the digits taken from `digits`.
WellFormed(file, digits) ==
    /\ file # NoFile
    /\ NumLines(file) >= 1
    /\ file[Len(file)] = LF
    /\ \A n \in 1..NumLines(file) :
          LET line == LineN(file, n)
          IN  /\ line # <<>> /\ line[Len(line)] = CR
              /\ IsRecord(line)
              /\ DigitsIn(line, digits)
              /\ TypeOf(line) \in {0, 1, 4}
              /\ (TypeOf(line) = 1) <=> (n = NumLines(file))

\* The address bank in force at line n: the last extended address before it.
BankAt(file, n) ==
    LET elas == {m \in 1..(n - 1) : TypeOf(LineN(file, m)) = 4}
        m == CHOOSE x \in elas : \A y \in elas : y <= x
    IN  IF elas = {} THEN 0
        ELSE BytesOf(LineN(file, m))[5] * 256 + BytesOf(LineN(file, m))[6]

\* A data line before line n that lands on the same absolute address as line n.
EarlierAt(file, n) ==
    {m \in 1..(n - 1) : /\ TypeOf(LineN(file, m)) = 0
                        /\ BankAt(file, m) = BankAt(file, n)
                        /\ OffsetOf(LineN(file, m)) = OffsetOf(LineN(file, n))}

PayloadsV(fData) == [k \in 1..Len(fData) |-> fData[k].data]
PayloadsM(fData) == [k \in 1..Len(fData) |-> fData[k].second]
IsData(r) == r.type = 0

--------------------------------------------------------------------------
(* Claims                                                                   *)

\* C1: an image read successfully and ciphered twice with the same key holds
\* the payload bytes it was read with, record by record, in both revisions,
\* also when it went through Write and Read between the two Cipher calls.
C1_CipherTwiceRestores ==
    orig["hex"].ciphers = 2 =>
        /\ orig["hex"].okV => PayloadsV(fDataV["hex"]) = PayloadsV(orig["hex"].V)
        /\ orig["hex"].okM => PayloadsM(fDataM["hex"]) = PayloadsM(orig["hex"].M)

\* C1 witness: ciphered, written, read back, ciphered again, with payloads.
C1_Witness ==
    /\ orig["hex"].ciphers = 2 /\ orig["hex"].via = 1
    /\ orig["hex"].okV /\ orig["hex"].okM
    /\ last.op = "Cipher"
    /\ Len(fDataM["hex"]) >= 2

\* C2: a Cipher call leaves the payload of every record that is not a Data
\* record as it was, and the Data records get the stream they would get if
\* the other records were not there.
C2_NonDataUntouched ==
    [][last'.op = "Cipher" =>
        /\ \A k \in 1..Len(fDataV["hex"]) :
              fDataV["hex"][k].type # 0 => fDataV'["hex"][k].data = fDataV["hex"][k].data
        /\ PayloadsV(SelectSeq(fDataV'["hex"], IsData))
              = PayloadsV(CipherV(SelectSeq(fDataV["hex"], IsData), keyfile))]_vars

\* C3: two calls for n1 and n2 bytes emit what one call for n1 + n2 bytes
\* emits on a state set up with the same key.
C3_ChunkingEquivalence ==
    (sKey # <<>> /\ Len(sCalls) = 2) =>
        sOut = arcfour_generate_stream(arcfour_key_setup(sKey), sCalls[1] + sCalls[2]).out

\* C4 as stated: a well-formed file, its digits in either case, is written
\* back byte for byte by the ordered-record revision.
C4_RoundTripAnyCase ==
    (last.op = "Write" /\ readV["hex"].kind # "not called"
        /\ WellFormed(input["hex"], UpperDigits \o LowerDigits))
    => (readV["hex"].ok /\ outV = input["hex"])

\* C4 amended: a well-formed file whose digits are upper case is written back
\* byte for byte by the ordered-record revision.
C4_RoundTripUpperCase ==
    (last.op = "Write" /\ readV["hex"].kind # "not called"
        /\ WellFormed(input["hex"], UpperDigits))
    => (readV["hex"].ok /\ outV = input["hex"])

\* C4 witness: such a file of three records or more, letters among its digits.
C4_Witness ==
    /\ last.op = "Write" /\ readV["hex"].ok
    /\ WellFormed(input["hex"], UpperDigits)
    /\ NumLines(input["hex"]) >= 3
    /\ \E q \in 1..Len(input["hex"]) : input["hex"][q] >= 65

\* C5: the file written from an image that a successful Read and any number
\* of Cipher calls produced reads back without error as the image written.
C5_WriteThenRead ==
    last.op = "ReadBack" =>
        /\ outOrig.prov.okV => (readV["hex"].ok /\ fDataV["hex"] = outOrig.V)
        /\ outOrig.prov.okM => (readM["hex"].ok /\ fDataM["hex"] = outOrig.M)

\* C5 witness: a ciphered image in a non-zero address bank read back.
C5_Witness ==
    /\ last.op = "ReadBack"
    /\ outOrig.prov.okV /\ outOrig.prov.okM
    /\ outOrig.prov.ciphers >= 1
    /\ Len(outOrig.M) >= 2
    /\ outOrig.M[1].first[1] # 0

\* C6: a record of a type other than 0, 1 and 4 that Read reaches makes it
\* fail with "unhandled record type", and no such record is in the image.
C6_UnsupportedTypeRejected ==
    last.op = "Read" =>
        /\ \A n \in 1..NumLines(input["hex"]) :
              LET line == LineN(input["hex"], n)
                  bad == IsRecord(line) /\ TypeOf(line) \notin {0, 1, 4}
              IN  /\ (bad /\ n <= readV["hex"].line) =>
                        (~readV["hex"].ok /\ readV["hex"].line = n
                         /\ readV["hex"].message = "unhandled record type")
                  /\ (bad /\ n <= readM["hex"].line) =>
                        (~readM["hex"].ok /\ readM["hex"].line = n
                         /\ readM["hex"].message = "unhandled record type")
        /\ \A k \in 1..Len(fDataV["hex"]) : fDataV["hex"][k].type \in {0, 1, 4}

\* C7: hex == hex2 is true exactly when the two images hold the same records,
\* payload bytes included.
C7_EqualityIsExact ==
    last.op = "Compare" =>
        /\ equal.V <=> (fDataV["hex"] = fDataV["hex2"])
        /\ equal.M <=> (fDataM["hex"] = fDataM["hex2"])

\* The image of the end-to-end scenario: one Data record at 0x0000 holding
\* 01 02, and the end-of-file record (which the map revision does not store).
ScenarioImage ==
    /\ fDataM["hex"] = <<[first |-> <<0, 0>>, second |-> <<1, 2>>]>>
    /\ Len(fDataV["hex"]) = 2
    /\ fDataV["hex"][1].type = 0 /\ fDataV["hex"][1].address = 0
    /\ fDataV["hex"][1].data = <<1, 2>>
    /\ fDataV["hex"][2].type = 1 /\ fDataV["hex"][2].data = <<>>

\* ":0200000001020C\r\n:00000001FF\r\n"
ScenarioText0C ==
    <<58, 48, 50, 48, 48, 48, 48, 48, 48, 48, 49, 48, 50, 48, 67, 13, 10,
      58, 48, 48, 48, 48, 48, 48, 48, 49, 70, 70, 13, 10>>

\* ":020000000102FB\r\n:00000001FF\r\n"
ScenarioTextFB ==
    <<58, 48, 50, 48, 48, 48, 48, 48, 48, 48, 49, 48, 50, 70, 66, 13, 10,
      58, 48, 48, 48, 48, 48, 48, 48, 49, 70, 70, 13, 10>>

\* C8 as stated: the scenario image is written as :0200000001020C and
\* :00000001FF, each ended by CR LF.
C8_Scenario0C ==
    (last.op = "Write" /\ ScenarioImage) => (outM = ScenarioText0C /\ outV = ScenarioText0C)

\* C8 amended: the scenario image is written as :020000000102FB and
\* :00000001FF, each ended by CR LF; FB is the two's complement of 02+01+02.
C8_ScenarioFB ==
    (last.op = "Write" /\ ScenarioImage) => (outM = ScenarioTextFB /\ outV = ScenarioTextFB)

\* C8 witness: the scenario image has been written.
C8_Witness == last.op = "Write" /\ ScenarioImage /\ readM["hex"].ok

\* C9 as stated: reading :02000004ABCD00DF and then a Data record at 0x1234
\* stores that record at 0xABCD1234.
C9_BankFromStatedLine ==
    (last.op = "Read" /\ input["hex"] = FileC9) =>
        \E k \in 1..Len(fDataM["hex"]) : fDataM["hex"][k].first = <<43981, 4660>>

\* C9 amended: every Data record Read accepts (address-keyed revision) has an
\* entry at (bank | address), the bank being 0 or the two bytes of the last
\* extended address record before it; the entry holds the payload of the
\* first record of the file that landed there.  :02000004ABCD82 is the line
\* that sets the bank to 0xABCD0000.
C9_StoredAtBankOrAddress ==
    last.op = "Read" =>
        \A n \in 1..NumLines(input["hex"]) :
            (n < readM["hex"].line /\ TypeOf(LineN(input["hex"], n)) = 0) =>
                \E k \in 1..Len(fDataM["hex"]) :
                    /\ fDataM["hex"][k].first
                          = <<BankAt(input["hex"], n), OffsetOf(LineN(input["hex"], n))>>
                    /\ EarlierAt(input["hex"], n) = {}
                          => fDataM["hex"][k].second = PayloadOf(LineN(input["hex"], n))

\* C9 witness: :02000004ABCD82, a Data record at 0x1234, the end of file.
C9_Witness ==
    /\ last.op = "Read" /\ readM["hex"].ok
    /\ input["hex"] = Join(<<Upper(RecEla), Upper(RecD2), Upper(RecEof)>>, CrLf, TRUE)
    /\ fDataM["hex"] = <<[first |-> <<43981, 4660>>, second |-> <<85>>]>>

\* What C10 says of line n of the input when Read reached it with a sum that
\* is not zero: a checksum error at that line, nothing of it in the image.
ChecksumRejected(n) ==
    /\ n <= readV["hex"].line =>
          /\ readV["hex"] = ParseError(n, Len(LineN(input["hex"], n)) - 2, "checksum error")
          /\ Len(fDataV["hex"]) = n - 1
    /\ n <= readM["hex"].line =>
          /\ readM["hex"] = ParseError(n, Len(LineN(input["hex"], n)) - 2, "checksum error")
          /\ \A k \in 1..Len(fDataM["hex"]) :
                \E m \in 1..(n - 1) :
                    /\ TypeOf(LineN(input["hex"], m)) = 0
                    /\ fDataM["hex"][k].first[2] = OffsetOf(LineN(input["hex"], m))
                    /\ fDataM["hex"][k].second = PayloadOf(LineN(input["hex"], m))

\* C10 as stated: every line of ':' and hexadecimal digits whose bytes do not
\* sum to zero fails Read with a checksum error.
C10_ChecksumAnyLength ==
    last.op = "Read" =>
        \A n \in 1..NumLines(input["hex"]) :
            LET line == LineN(input["hex"], n)
            IN  (HexOnly(line) /\ SumBytes(BytesOf(line)) % 256 # 0) => ChecksumRejected(n)

\* C10 amended: every line of at least 10 characters, ':' and hexadecimal
\* digits, whose bytes do not sum to zero fails Read with a checksum error,
\* whatever its declared length and its type; nothing of it is stored.
C10_ChecksumEnforced ==
    last.op = "Read" =>
        \A n \in 1..NumLines(input["hex"]) :
            LET line == LineN(input["hex"], n)
            IN  (HexOnly(line) /\ Len(line) >= 10 /\ SumBytes(BytesOf(line)) % 256 # 0)
                    => ChecksumRejected(n)

\* C10 witness: after a stored record, a line with a wrong sum and a declared
\* length that does not match either.
C10_Witness ==
    /\ last.op = "Read"
    /\ readV["hex"].line = 2 /\ readM["hex"].line = 2
    /\ readV["hex"].message = "checksum error"
    /\ NumLines(input["hex"]) >= 2
    /\ StripCr(LineN(input["hex"], 2)) = LineLenBadSum
    /\ Len(fDataM["hex"]) = 1

=============================================================================
